---- MODULE Spec2Model ----
(***************************************************************************)
(* A model of imdb-api (src/src/imdb.ts): the Client orchestrator          *)
(* (get / search / mergeOpts), the module-level get / search wrappers,     *)
(* the record builders (Movie, Episode, TVShow, Game, SearchResults) and   *)
(* the TVShow.episodes aggregator.                                         *)
(*                                                                         *)
(* JavaScript values are modelled as follows.                              *)
(*   - An object is a function whose DOMAIN is its set of own properties;  *)
(*     a property that is absent reads as undefined.                       *)
(*   - A string that the code parses (Year, totalSeasons, Season, Episode) *)
(*     is a sequence of one-character strings; "endash" stands for the     *)
(*     character U+2013.  Other strings are TLA+ strings.                  *)
(*   - An optional argument is a sequence of length 0 (omitted) or 1.      *)
(*   - A template string is the sequence of its parts.                     *)
(*   - A constructor returns Built(obj) or Throw(name, message).           *)
(***************************************************************************)
EXTENDS Integers, Sequences, FiniteSets, TLC

VARIABLES
    client,       \* the long-lived Client: Null or [opts |-> MovieOpts]
    pending,      \* the Client.get / Client.search promise awaiting its response
    page,         \* the SearchResults object the caller holds (Null before any)
    show,         \* the TVShow on which episodes() is called
    origin,       \* the baseline and overrides of the get call that built show
    _episodes,    \* TVShow._episodes
    cacheOwner,   \* which episodes() call built the array in _episodes (0: [])
    calls,        \* the episodes() calls whose Promise.all has not settled
    fanouts,      \* number of episodes() calls that issued season requests
    firstList,    \* which call built the list the first successful call resolved to (0: none yet)
    sent,         \* the transport requests issued by the latest step
    last          \* what the latest step was and how it ended

vars == <<client, pending, page, show, origin, _episodes, cacheOwner, calls,
          fanouts, firstList, sent, last>>

getVars == <<client, pending, page>>
epVars == <<show, origin, _episodes, cacheOwner, calls, fanouts, firstList>>

Null == <<>>

\* ------------------------------------------------------------------ bounds

\* highest page number a search is asked for
MaxPage == 3
\* largest totalSeasons of the TVShow under test
MaxSeasons == 2
\* episodes() calls that may be awaiting their season responses at once
MaxCalls == 2
\* episodes() calls that fan out over the lifetime of the TVShow
MaxFanouts == 2

\* --------------------------------------------------------- string helpers

DigitChars == <<"0", "1", "2", "3", "4", "5", "6", "7", "8", "9">>

IsDigit(c) == \E i \in 1..10 : DigitChars[i] = c

DigitVal(c) == (CHOOSE i \in 1..10 : DigitChars[i] = c) - 1

\* the value parseInt and parseFloat give when no number can be read
NaN == -1

RECURSIVE DecimalValue(_)
DecimalValue(s) ==
    IF s = <<>> THEN 0
    ELSE DecimalValue(SubSeq(s, 1, Len(s) - 1)) * 10 + DigitVal(s[Len(s)])

\* parseInt(s, 10) on a string with no leading white space or sign: the value
\* of the longest prefix of digits, NaN when that prefix is empty.
parseInt(s) ==
    LET n == CHOOSE k \in 0..Len(s) :
                 /\ \A i \in 1..k : IsDigit(s[i])
                 /\ k < Len(s) => ~IsDigit(s[k + 1])
    IN  IF n = 0 THEN NaN ELSE DecimalValue(SubSeq(s, 1, n))

\* parseInt(obj[key], 10); parseInt(undefined) is NaN
parseIntField(obj, key) ==
    IF key \in DOMAIN obj THEN parseInt(obj[key]) ELSE NaN

\* String(n) for a natural number
RECURSIVE String(_)
String(n) ==
    IF n < 10 THEN <<DigitChars[n + 1]>>
    ELSE String(n \div 10) \o <<DigitChars[(n % 10) + 1]>>

\* s.split(sep) for a one-character separator
RECURSIVE split(_, _)
split(s, sep) ==
    IF \A i \in 1..Len(s) : s[i] # sep THEN <<s>>
    ELSE LET k == CHOOSE i \in 1..Len(s) :
                      s[i] = sep /\ \A j \in 1..(i - 1) : s[j] # sep
         IN  <<SubSeq(s, 1, k - 1)>> \o split(SubSeq(s, k + 1, Len(s)), sep)

\* s.match(/\d{4}[-<endash>](?:\d{4})?/): the pattern is not anchored
matchYearRange(s) ==
    \E k \in 1..(Len(s) - 4) :
        /\ \A i \in k..(k + 3) : IsDigit(s[i])
        /\ s[k + 4] \in {"-", "endash"}

\* ------------------------------------------------------- errors, results

Throw(name, message) ==
    [threw |-> TRUE, error |-> [name |-> name, message |-> message]]

Built(obj) == [threw |-> FALSE, obj |-> obj]

ImdbErrorName == "imdb api error"

ImdbError(message) == Throw(ImdbErrorName, message)

TypeError(message) == Throw("TypeError", message)

\* what the transport collaborator rejects with (network error, timeout, ...)
TransportError == [name |-> "HTTPError", message |-> <<"request failed">>]

\* ------------------------------------------- response classifier predicates

isError(response) ==
    "Response" \in DOMAIN response /\ response.Response = "False"

TypeTag(response) ==
    IF "Type" \in DOMAIN response THEN response.Type ELSE "undefined"

isMovie(response) == TypeTag(response) = "movie"

isGame(response) == TypeTag(response) = "game"

isTvshow(response) == TypeTag(response) = "series"

isEpisode(response) == TypeTag(response) = "episode"

\* ------------------------------------------------------- record builders

\* the own properties a builder copies under a lower-cased or translated key
CopiedKeys == [Type |-> "type", imdbID |-> "imdbid", seriesID |-> "seriesid"]

Copied(obj) ==
    LET ks == {k \in DOMAIN CopiedKeys : k \in DOMAIN obj}
        target == {CopiedKeys[k] : k \in ks}
    IN  [t \in target |-> obj[CHOOSE k \in ks : CopiedKeys[k] = t]]

\* the Year branch of the Movie constructor: _yearData always, year only
\* when the string is not a range
YearFields(obj) ==
    IF "Year" \notin DOMAIN obj THEN Null
    ELSE IF matchYearRange(obj.Year) THEN [_yearData |-> obj.Year]
    ELSE [_yearData |-> obj.Year, year |-> parseInt(obj.Year)]

Movie(obj) ==
    IF /\ "Year" \in DOMAIN obj
       /\ ~matchYearRange(obj.Year)
       /\ parseInt(obj.Year) = NaN
    THEN TypeError(<<"invalid year">>)
    ELSE LET copied == Copied(obj)
             type == IF "type" \in DOMAIN copied THEN copied.type ELSE "undefined"
         IN  Built([class |-> "Movie", series |-> type # "movie"]
                   @@ YearFields(obj) @@ copied)

Game(obj) ==
    LET m == Movie(obj)
    IN  IF m.threw THEN m ELSE Built([class |-> "Game"] @@ m.obj)

\* new Episode(obj, season): season is the optional second argument
Episode(obj, season) ==
    LET m == Movie(obj)
        s == IF season # <<>> THEN season[1] ELSE parseIntField(obj, "Season")
    IN  IF m.threw THEN m
        ELSE IF season = <<>> /\ s = NaN THEN TypeError(<<"invalid season">>)
        ELSE IF "Episode" \in DOMAIN obj /\ parseInt(obj.Episode) = NaN
             THEN TypeError(<<"invalid episode">>)
        ELSE Built([class |-> "Episode", season |-> s]
                   @@ (IF "Episode" \in DOMAIN obj
                       THEN [episode |-> parseInt(obj.Episode)] ELSE Null)
                   @@ m.obj)

TVShow(obj, opts) ==
    LET m == Movie(obj)
    IN  IF m.threw THEN m
        ELSE IF "_yearData" \notin DOMAIN m.obj
             THEN TypeError(<<"cannot read property split of undefined">>)
        ELSE LET years == split(m.obj._yearData, "-")
                 endv == IF Len(years) >= 2 THEN parseInt(years[2]) ELSE NaN
             IN  Built([class |-> "TVShow",
                        start_year |-> parseInt(years[1]),
                        totalseasons |-> parseIntField(obj, "totalSeasons"),
                        opts |-> opts]
                       @@ (IF endv \notin {NaN, 0} THEN [end_year |-> endv] ELSE Null)
                       @@ m.obj)

SearchResult(obj) ==
    [imdbid |-> obj.imdbID, year |-> parseIntField(obj, "Year")]

SearchResults(obj, pg, opts, req) ==
    [page |-> pg, req |-> req, opts |-> opts,
     results |-> IF "Search" \in DOMAIN obj
                 THEN [i \in 1..Len(obj.Search) |-> SearchResult(obj.Search[i])]
                 ELSE <<>>,
     totalresults |-> parseIntField(obj, "totalResults")]

\* --------------------------------------------------- the inputs explored

OptField(k, S) == {Null} \cup {k :> v : v \in S}

\* MovieOpts given to the constructor of the long-lived Client
ClientOpts == {Null, [apiKey |-> "k1", timeout |-> 10]}

\* MovieOpts given to a module-level wrapper
BaseOpts ==
    {a @@ b : a \in OptField("apiKey", {"k1"}), b \in OptField("timeout", {10})}

\* the optional per-call overrides
Overrides ==
    {<<>>} \cup {<<a @@ b>> : a \in OptField("apiKey", {"k2"}),
                              b \in OptField("timeout", {20})}

MovieRequests ==
    {n @@ i : n \in OptField("name", {"", "n1"}), i \in OptField("id", {"", "tt1"})}
    \cup {[name |-> "n1", year |-> 1999, short_plot |-> TRUE],
          [id |-> "tt1", year |-> 1999, short_plot |-> FALSE]}

SearchRequests ==
    {[name |-> "n1"], [name |-> "n1", year |-> 1999, reqtype |-> "series"]}

PageArgs == {<<>>} \cup {<<p>> : p \in 1..MaxPage}

\* the Year strings of a series payload: the hyphen and en-dash ranges, open
\* and closed, a single year, and a string that is neither
YearStrings ==
    { <<"2", "0", "1", "5", "-", "2", "0", "1", "9">>,
      <<"2", "0", "1", "5", "-">>,
      <<"2", "0", "1", "5", "endash", "2", "0", "1", "9">>,
      <<"2", "0", "1", "5", "endash">>,
      <<"2", "0", "1", "5">>,
      <<"N", "/", "A">> }

TypeTags == {"movie", "game", "series", "episode", "tv"}

\* the Year strings tried with a payload of each Type
TypeYears(t) ==
    IF t = "series" THEN YearStrings
    ELSE IF t = "movie"
         THEN {<<"2", "0", "1", "5">>, <<"N", "/", "A">>,
               <<"2", "0", "1", "5", "-", "2", "0", "1", "9">>}
    ELSE {<<"2", "0", "1", "5">>}

\* the fields a payload of each Type carries besides Type, Year and imdbID
TypeFields(t) ==
    IF t = "series" THEN {[totalSeasons |-> <<"2">>]}
    ELSE IF t = "episode"
         THEN {[Season |-> <<"1">>, Episode |-> <<"3">>],
               [Season |-> <<"N", "/", "A">>, Episode |-> <<"3">>],
               [Season |-> <<"1">>, Episode |-> <<"N", "/", "A">>],
               [Season |-> <<"1">>]}
    ELSE {Null}

GetPayloads ==
    {[Response |-> "False", Error |-> "Movie not found!"],
     [Response |-> "False", Error |-> "Movie not found!", Type |-> "movie",
      Year |-> <<"2", "0", "1", "5">>, imdbID |-> "tt1"]}
    \cup UNION {{[Response |-> "True", Type |-> t, Year |-> y, imdbID |-> "tt1"] @@ f :
                     y \in TypeYears(t), f \in TypeFields(t)} : t \in TypeTags}

SearchPayloads ==
    {[Response |-> "False", Error |-> "Movie not found!"],
     [Response |-> "True", totalResults |-> <<"2", "5">>,
      Search |-> <<[imdbID |-> "tt1", Year |-> <<"2", "0", "1", "5">>]>>],
     [Response |-> "True", totalResults |-> <<"0">>, Search |-> <<>>]}

\* ------------------------------------------------------------- the Client

\* a string property that is present and not the empty string
Truthy(obj, key) == key \in DOMAIN obj /\ obj[key] # ""

\* the timeout handed to the transport: undefined unless "timeout" in opts
TimeoutOf(opts) ==
    IF "timeout" \in DOMAIN opts THEN [timeout |-> opts.timeout] ELSE Null

\* a merge in which the client's own options win
mergeOptsBaselineWins(thisOpts, opts) ==
    IF opts # <<>> THEN thisOpts @@ opts[1] ELSE thisOpts

\* { ...this.opts, ...opts }: a new object, the overrides winning key by key
mergeOpts(thisOpts, opts) ==
    IF opts # <<>> THEN opts[1] @@ thisOpts ELSE thisOpts

\* new Client(opts)
Client(opts) ==
    IF "apiKey" \notin DOMAIN opts THEN ImdbError(<<"Missing api key in opts">>)
    ELSE Built([opts |-> opts])

\* a query builder that forgets the type of media
reqtoqueryobjNoType(req, apikey, pg) ==
    [apikey |-> apikey, s |-> req.name, page |-> String(pg), r |-> "json"]
    @@ (IF "year" \in DOMAIN req THEN [y |-> String(req.year)] ELSE Null)

reqtoqueryobj(req, apikey, pg) ==
    [apikey |-> apikey, s |-> req.name, page |-> String(pg), r |-> "json"]
    @@ (IF "year" \in DOMAIN req THEN [y |-> String(req.year)] ELSE Null)
    @@ (IF "reqtype" \in DOMAIN req THEN [type |-> req.reqtype] ELSE Null)

\* the query parameters of Client.get that do not depend on name and id
GetQuery(req, opts) ==
    [apikey |-> opts.apiKey,
     plot |-> IF "short_plot" \in DOMAIN req /\ req.short_plot THEN "short" ELSE "full",
     r |-> "json"]
    @@ (IF "year" \in DOMAIN req THEN [y |-> String(req.year)] ELSE Null)

\* Client.get issues its request, by title (t) or by id (i), and returns the
\* pending promise with what its continuation closes over
GetIssued(req, opts, by) ==
    [rejected |-> FALSE,
     sent |-> <<[searchParams |-> GetQuery(req, opts) @@ by] @@ TimeoutOf(opts)>>,
     pending |-> [op |-> "get", req |-> req, opts |-> opts]]

\* Client.get returns a rejected promise without calling the transport
GetRejected ==
    [rejected |-> TRUE,
     error |-> ImdbError(<<"Missing one of req.id or req.name">>).error,
     sent |-> <<>>,
     pending |-> Null]

\* a Client.get that insists on exactly one of name and id
ClientGetCallExactlyOne(thisOpts, req, over) ==
    LET opts == mergeOpts(thisOpts, over)
    IN  IF Truthy(req, "name") /\ Truthy(req, "id") THEN GetRejected
        ELSE IF Truthy(req, "name") THEN GetIssued(req, opts, [t |-> req.name])
        ELSE IF Truthy(req, "id") THEN GetIssued(req, opts, [i |-> req.id])
        ELSE GetRejected

\* the synchronous part of Client.get
ClientGetCall(thisOpts, req, over) ==
    LET opts == mergeOpts(thisOpts, over)
    IN  IF Truthy(req, "name") THEN GetIssued(req, opts, [t |-> req.name])
        ELSE IF Truthy(req, "id") THEN GetIssued(req, opts, [i |-> req.id])
        ELSE GetRejected

\* the synchronous part of Client.search
ClientSearchCall(thisOpts, req, pageArg, over) ==
    LET opts == mergeOpts(thisOpts, over)
        pg == IF pageArg = <<>> THEN 1 ELSE pageArg[1]
    IN  [rejected |-> FALSE,
         sent |-> <<[searchParams |-> reqtoqueryobj(req, opts.apiKey, pg)]
                    @@ TimeoutOf(opts)>>,
         pending |-> [op |-> "search", req |-> req, page |-> pg, opts |-> opts]]

\* a continuation that looks at the Type tag before the failure indicator
GetThenTypeFirst(data, req, opts) ==
    IF isMovie(data) THEN Movie(data)
    ELSE IF isGame(data) THEN Game(data)
    ELSE IF isTvshow(data) THEN TVShow(data, opts)
    ELSE IF isEpisode(data) THEN Episode(data, <<>>)
    ELSE IF isError(data)
    THEN ImdbError(<<data.Error, ": ",
                     IF Truthy(req, "name") THEN req.name ELSE req.id>>)
    ELSE ImdbError(<<"type: '", TypeTag(data), "' is not valid">>)

\* the continuation of Client.get on the parsed response
GetThen(data, req, opts) ==
    IF isError(data)
    THEN ImdbError(<<data.Error, ": ",
                     IF Truthy(req, "name") THEN req.name ELSE req.id>>)
    ELSE IF isMovie(data) THEN Movie(data)
    ELSE IF isGame(data) THEN Game(data)
    ELSE IF isTvshow(data) THEN TVShow(data, opts)
    ELSE IF isEpisode(data) THEN Episode(data, <<>>)
    ELSE ImdbError(<<"type: '", TypeTag(data), "' is not valid">>)

\* the continuation of Client.search on the parsed response
SearchThen(data, req, pg, opts) ==
    IF isError(data) THEN ImdbError(<<data.Error, ": ", req.name>>)
    ELSE Built(SearchResults(data, pg, opts, req))

\* how a synchronous call ended, as the caller sees it
Outcome(r) ==
    IF r.rejected THEN [outcome |-> "rejected", error |-> r.error]
    ELSE [outcome |-> "pending"]

\* the module-level get(req, opts): try { new Client(opts).get(req) }
\* catch (e) { Promise.reject(e) }
getCall(req, opts) ==
    LET c == Client(opts)
    IN  IF c.threw
        THEN [outcome |-> "rejected", error |-> c.error, sent |-> <<>>, pending |-> Null]
        ELSE LET r == ClientGetCall(c.obj.opts, req, <<>>)
             IN  Outcome(r) @@ [sent |-> r.sent, pending |-> r.pending]

\* the module-level search(req, opts, page): new Client(opts).search(req, page),
\* with nothing to catch what the constructor throws
searchCall(req, opts, pageArg) ==
    LET c == Client(opts)
    IN  IF c.threw
        THEN [outcome |-> "threw", error |-> c.error, sent |-> <<>>, pending |-> Null]
        ELSE LET r == ClientSearchCall(c.obj.opts, req, pageArg, <<>>)
             IN  Outcome(r) @@ [sent |-> r.sent, pending |-> r.pending]

\* -------------------------------------- actions: the request orchestrator

NewClient(opts) ==
    /\ client = Null
    /\ LET c == Client(opts)
       IN  /\ client' = IF c.threw THEN Null ELSE c.obj
           /\ last' = [op |-> "new Client", opts |-> opts]
                       @@ (IF c.threw THEN [outcome |-> "threw", error |-> c.error]
                           ELSE [outcome |-> "returned"])
    /\ sent' = <<>>
    /\ UNCHANGED <<pending, page>>
    /\ UNCHANGED epVars

ClientGet(req, over) ==
    /\ client # Null
    /\ pending = Null
    /\ LET r == ClientGetCall(client.opts, req, over)
       IN  /\ pending' = r.pending
           /\ sent' = r.sent
           /\ last' = [op |-> "Client.get", req |-> req, over |-> over] @@ Outcome(r)
    /\ UNCHANGED <<client, page>>
    /\ UNCHANGED epVars

ClientSearch(req, pageArg, over) ==
    /\ client # Null
    /\ pending = Null
    /\ LET r == ClientSearchCall(client.opts, req, pageArg, over)
       IN  /\ pending' = r.pending
           /\ sent' = r.sent
           /\ last' = [op |-> "Client.search", req |-> req, pageArg |-> pageArg,
                        over |-> over] @@ Outcome(r)
    /\ UNCHANGED <<client, page>>
    /\ UNCHANGED epVars

get(req, opts) ==
    /\ pending = Null
    /\ LET r == getCall(req, opts)
       IN  /\ pending' = r.pending
           /\ sent' = r.sent
           /\ last' = [op |-> "get", req |-> req, opts |-> opts]
                       @@ [k \in DOMAIN r \ {"sent", "pending"} |-> r[k]]
    /\ UNCHANGED <<client, page>>
    /\ UNCHANGED epVars

search(req, opts, pageArg) ==
    /\ pending = Null
    /\ LET r == searchCall(req, opts, pageArg)
       IN  /\ pending' = r.pending
           /\ sent' = r.sent
           /\ last' = [op |-> "search", req |-> req, opts |-> opts, pageArg |-> pageArg]
                       @@ [k \in DOMAIN r \ {"sent", "pending"} |-> r[k]]
    /\ UNCHANGED <<client, page>>
    /\ UNCHANGED epVars

\* SearchResults.next(): search(this.req, this.opts, this.page + 1)
next ==
    /\ page # Null
    /\ pending = Null
    /\ page.page + 1 <= MaxPage
    /\ LET r == searchCall(page.req, page.opts, <<page.page + 1>>)
       IN  /\ pending' = r.pending
           /\ sent' = r.sent
           /\ last' = [op |-> "next", from |-> page]
                       @@ [k \in DOMAIN r \ {"sent", "pending"} |-> r[k]]
    /\ UNCHANGED <<client, page>>
    /\ UNCHANGED epVars

\* the response to a get request arrives and the continuation runs
GetResponse(data) ==
    /\ pending # Null
    /\ pending.op = "get"
    /\ LET r == GetThen(data, pending.req, pending.opts)
       IN  last' = [op |-> "get.then", data |-> data, req |-> pending.req]
                   @@ (IF r.threw THEN [outcome |-> "rejected", error |-> r.error]
                       ELSE [outcome |-> "resolved", value |-> r.obj])
    /\ pending' = Null
    /\ sent' = <<>>
    /\ UNCHANGED <<client, page>>
    /\ UNCHANGED epVars

\* the response to a search request arrives and the continuation runs; the
\* caller either takes the new page or keeps holding the one it had
SearchResponse(data, adopt) ==
    /\ pending # Null
    /\ pending.op = "search"
    /\ LET r == SearchThen(data, pending.req, pending.page, pending.opts)
       IN  /\ last' = [op |-> "search.then", data |-> data, req |-> pending.req]
                       @@ (IF r.threw THEN [outcome |-> "rejected", error |-> r.error]
                           ELSE [outcome |-> "resolved", value |-> r.obj])
           /\ page' = IF ~r.threw /\ adopt THEN r.obj ELSE page
    /\ pending' = Null
    /\ sent' = <<>>
    /\ UNCHANGED client
    /\ UNCHANGED epVars

\* the transport rejects (network error, non-2xx status, timeout)
TransportFails ==
    /\ pending # Null
    /\ last' = [op |-> "transport failure", outcome |-> "rejected",
                error |-> TransportError]
    /\ pending' = Null
    /\ sent' = <<>>
    /\ UNCHANGED <<client, page>>
    /\ UNCHANGED epVars

Init ==
    /\ client = Null
    /\ pending = Null
    /\ page = Null
    /\ show = Null
    /\ origin = Null
    /\ _episodes = <<>>
    /\ cacheOwner = 0
    /\ calls = <<>>
    /\ fanouts = 0
    /\ firstList = 0
    /\ sent = <<>>
    /\ last = [op |-> "init"]

Next ==
    \/ \E o \in ClientOpts : NewClient(o)
    \/ \E req \in MovieRequests, over \in Overrides : ClientGet(req, over)
    \/ \E req \in SearchRequests, pg \in PageArgs, over \in Overrides :
           ClientSearch(req, pg, over)
    \/ \E req \in MovieRequests, o \in BaseOpts : get(req, o)
    \/ \E req \in SearchRequests, o \in BaseOpts, pg \in PageArgs : search(req, o, pg)
    \/ next
    \/ \E data \in GetPayloads : GetResponse(data)
    \/ \E data \in SearchPayloads, adopt \in BOOLEAN : SearchResponse(data, adopt)
    \/ TransportFails

Spec == Init /\ [][Next]_vars

\* ------------------------------------------------ the episode aggregator

\* the entries of a season listing, each with an Episode number and an id
Ep(number, id) == [Episode |-> number, imdbID |-> id]

\* The season payloads explored.  Episodes is given as the sequence of the
\* values of its own properties in enumeration order: for a mapping keyed by
\* ordinal these are its entries; for an array they are its elements followed
\* by its length, a number, which has no own properties (Null).
SeasonPayloads ==
    {[Response |-> "True", Season |-> <<"1">>,
      Episodes |-> <<Ep(<<"1">>, "tt11"), Ep(<<"2">>, "tt12")>>],
     [Response |-> "True", Season |-> <<"2">>,
      Episodes |-> <<Ep(<<"1">>, "tt21"), Null>>],
     [Response |-> "True", Season |-> <<"N", "/", "A">>,
      Episodes |-> <<Ep(<<"1">>, "tt11")>>],
     [Response |-> "True", Season |-> <<"1">>, Episodes |-> <<>>],
     [Response |-> "True", Season |-> <<"1">>,
      Episodes |-> <<Ep(<<"N", "/", "A">>, "tt13")>>],
     [Response |-> "False", Error |-> "Series or season not found!"],
     [Response |-> "False", Error |-> "Request limit reached!"]}

\* a season request that leaves the timeout out
SeasonRequestNoTimeout(tvShow, i) ==
    [searchParams |-> [Season |-> i, apikey |-> tvShow.opts.apiKey,
                       i |-> tvShow.imdbid, r |-> "json"]]

\* the request the loop of episodes() builds for season i
SeasonRequest(tvShow, i) ==
    [searchParams |-> [Season |-> i, apikey |-> tvShow.opts.apiKey,
                       i |-> tvShow.imdbid, r |-> "json"]]
    @@ TimeoutOf(tvShow.opts)

\* the inner loop: one Episode per own property of datum.Episodes, all with
\* the season computed by the caller; the first throw ends it
RECURSIVE SeasonEpisodes(_, _)
SeasonEpisodes(entries, season) ==
    IF entries = <<>> THEN Built(<<>>)
    ELSE LET e == Episode(Head(entries), <<season>>)
         IN  IF e.threw THEN e
             ELSE LET rest == SeasonEpisodes(Tail(entries), season)
                  IN  IF rest.threw THEN rest ELSE Built(<<e.obj>> \o rest.obj)

\* a continuation that passes over an error-classified season and keeps
\* the episodes of the others
RECURSIVE EpisodesThenSkipsErrors(_)
EpisodesThenSkipsErrors(epData) ==
    IF epData = <<>> THEN Built(<<>>)
    ELSE LET datum == Head(epData)
             rest == EpisodesThenSkipsErrors(Tail(epData))
         IN  IF isError(datum) THEN rest
             ELSE LET eps == SeasonEpisodes(datum.Episodes,
                                            parseIntField(datum, "Season"))
                  IN  IF eps.threw THEN eps
                      ELSE IF rest.threw THEN rest
                      ELSE Built(eps.obj \o rest.obj)

\* the continuation of Promise.all in episodes(): the outer loop over epData
RECURSIVE EpisodesThen(_)
EpisodesThen(epData) ==
    IF epData = <<>> THEN Built(<<>>)
    ELSE LET datum == Head(epData)
         IN  IF isError(datum) THEN ImdbError(<<datum.Error>>)
             ELSE IF "Episodes" \notin DOMAIN datum
                  THEN TypeError(<<"cannot convert undefined to object">>)
             ELSE LET season == parseIntField(datum, "Season")
                      eps == SeasonEpisodes(datum.Episodes, season)
                  IN  IF eps.threw THEN eps
                      ELSE LET rest == EpisodesThen(Tail(epData))
                           IN  IF rest.threw THEN rest
                               ELSE Built(eps.obj \o rest.obj)

FreeSlots == {c \in 1..MaxCalls : calls[c] = Null}

\* TVShow.episodes(): the memoized list, or the fan-out of one request per
\* season, all issued before the function returns its promise
episodes ==
    /\ show # Null
    /\ IF Len(_episodes) # 0
       THEN /\ last' = [op |-> "episodes", outcome |-> "resolved",
                        value |-> _episodes, list |-> cacheOwner,
                        resolvedBefore |-> firstList # 0]
            /\ sent' = <<>>
            /\ UNCHANGED <<calls, fanouts>>
       ELSE /\ FreeSlots # {}
            /\ fanouts < MaxFanouts
            /\ LET c == CHOOSE f \in FreeSlots : \A g \in FreeSlots : f <= g
                   funcs == [i \in 1..show.totalseasons |-> SeasonRequest(show, i)]
               IN  /\ sent' = funcs
                   /\ calls' = [calls EXCEPT ![c] =
                                   [id |-> fanouts + 1,
                                    after |-> firstList # 0,
                                    arrived |-> <<>>,
                                    legs |-> [i \in 1..Len(funcs) |-> "pending"]]]
                   /\ last' = [op |-> "episodes", outcome |-> "pending",
                               call |-> fanouts + 1,
                               resolvedBefore |-> firstList # 0]
            /\ fanouts' = fanouts + 1
    /\ UNCHANGED <<show, origin, _episodes, cacheOwner, firstList>>
    /\ UNCHANGED getVars

\* a join that hands over the bodies in the order they arrived
PromiseAllInArrivalOrder(arrived, bodies) ==
    [k \in 1..Len(arrived) |-> bodies[arrived[k]]]

\* Promise.all(funcs): bodies[i] is the body of funcs[i] and arrived the
\* order in which the promises were fulfilled; the result lists the bodies
\* by the position of their promise in funcs
PromiseAll(arrived, bodies) ==
    [k \in 1..Len(arrived) |-> bodies[k]]

\* The continuation of Promise.all in episodes() runs on epData, the result
\* of the join: it builds the list, stores it in _episodes and resolves with
\* it, or throws.
Continuation(c, legs, arrived, bodies) ==
    LET epData == PromiseAll(arrived, bodies)
        r == EpisodesThen(epData)
    IN  IF r.threw
        THEN /\ last' = [op |-> "episodes settled", call |-> calls[c].id,
                         resolvedBefore |-> calls[c].after,
                         legs |-> legs, arrived |-> arrived,
                         bodies |-> bodies, epData |-> epData,
                         outcome |-> "rejected", error |-> r.error]
             /\ UNCHANGED <<_episodes, cacheOwner, firstList>>
        ELSE /\ last' = [op |-> "episodes settled", call |-> calls[c].id,
                         resolvedBefore |-> calls[c].after,
                         legs |-> legs, arrived |-> arrived,
                         bodies |-> bodies, epData |-> epData,
                         outcome |-> "resolved", value |-> r.obj,
                         list |-> calls[c].id]
             /\ _episodes' = r.obj
             /\ cacheOwner' = calls[c].id
             /\ firstList' = IF firstList = 0 THEN calls[c].id ELSE firstList

\* One season request of a pending call completes.  A rejection by the
\* transport rejects Promise.all at once, and the continuation never runs.
\* The fulfilment of the last pending request resolves Promise.all, and the
\* continuation runs in the same turn of the event loop; nothing reads a
\* body before that, so the model draws the bodies there.
SeasonResponse(c, i, ok) ==
    /\ calls[c] # Null
    /\ i \in 1..Len(calls[c].legs)
    /\ calls[c].legs[i] = "pending"
    /\ LET legs == [calls[c].legs EXCEPT ![i] = IF ok THEN "fulfilled" ELSE "rejected"]
           arrived == Append(calls[c].arrived, i)
       IN  IF ~ok
           THEN /\ last' = [op |-> "episodes settled", call |-> calls[c].id,
                            resolvedBefore |-> calls[c].after,
                            legs |-> legs, outcome |-> "rejected",
                            error |-> TransportError]
                /\ calls' = [calls EXCEPT ![c] = Null]
                /\ UNCHANGED <<_episodes, cacheOwner, firstList>>
           ELSE IF \A j \in 1..Len(legs) : legs[j] = "fulfilled"
           THEN /\ \E bodies \in [1..Len(legs) -> SeasonPayloads] :
                       Continuation(c, legs, arrived, bodies)
                /\ calls' = [calls EXCEPT ![c] = Null]
           ELSE /\ last' = [op |-> "season response"]
                /\ calls' = [calls EXCEPT ![c].legs = legs,
                                          ![c].arrived = arrived]
                /\ UNCHANGED <<_episodes, cacheOwner, firstList>>
    /\ sent' = <<>>
    /\ UNCHANGED <<show, origin, fanouts>>
    /\ UNCHANGED getVars

\* Promise.all of no promises resolves once the caller of episodes() has
\* returned to the event loop, and the continuation runs on no bodies
EmptyResolved(c) ==
    /\ calls[c] # Null
    /\ calls[c].legs = <<>>
    /\ Continuation(c, <<>>, <<>>, <<>>)
    /\ calls' = [calls EXCEPT ![c] = Null]
    /\ sent' = <<>>
    /\ UNCHANGED <<show, origin, fanouts>>
    /\ UNCHANGED getVars

\* the get calls that produce the TVShow under test
Origins ==
    {[base |-> [apiKey |-> "k1"], over |-> <<[apiKey |-> "k2"]>>],
     [base |-> [apiKey |-> "k1", timeout |-> 10], over |-> <<[timeout |-> 20]>>]}

TotalSeasonsStrings == {String(n) : n \in 0..MaxSeasons} \cup {<<"N", "/", "A">>}

SeriesPayload(total) ==
    [Response |-> "True", Type |-> "series", imdbID |-> "tt1",
     Year |-> <<"2", "0", "1", "5", "-", "2", "0", "1", "9">>,
     totalSeasons |-> total]

\* a TVShow as Client.get resolves it, before any episodes() call
InitEpisodes ==
    /\ origin \in Origins
    /\ \E total \in TotalSeasonsStrings :
           show = GetThen(SeriesPayload(total), [name |-> "n1"],
                          mergeOpts(origin.base, origin.over)).obj
    /\ _episodes = <<>>
    /\ cacheOwner = 0
    /\ calls = [c \in 1..MaxCalls |-> Null]
    /\ fanouts = 0
    /\ firstList = 0
    /\ client = [opts |-> origin.base]
    /\ pending = Null
    /\ page = Null
    /\ sent = <<>>
    /\ last = [op |-> "init"]

NextEpisodes ==
    \/ episodes
    \/ \E c \in 1..MaxCalls, i \in 1..MaxSeasons, ok \in BOOLEAN :
           SeasonResponse(c, i, ok)
    \/ \E c \in 1..MaxCalls : EmptyResolved(c)

SpecEpisodes == InitEpisodes /\ [][NextEpisodes]_vars

\* ======================================================================
\* Properties of TVShow.episodes, checked under SpecEpisodes
\* ======================================================================

EpisodesCalled == last.op = "episodes"

EpisodesSettled == last.op = "episodes settled"

\* the continuation ran on the bodies last.epData
ContinuationRan == EpisodesSettled /\ "epData" \in DOMAIN last

\* C1 (as claimed): once an episodes() call has resolved, every later call
\* issues no transport request and resolves to the very list the first
\* successful call resolved to, whatever that list holds.
C1_LaterCallsAreMemoized ==
    EpisodesCalled /\ last.resolvedBefore
        => /\ sent = <<>>
           /\ last.outcome = "resolved"
           /\ last.list = firstList

\* the number of entries of the seasons before season i
RECURSIVE EntriesBefore(_, _)
EntriesBefore(epData, i) ==
    IF i <= 1 THEN 0
    ELSE EntriesBefore(epData, i - 1) + Len(epData[i - 1].Episodes)

\* C2 (as claimed): in the list episodes() resolves to, every Episode built
\* from the response to the request for season i has season = i.
C2_SeasonIsTheOneRequested ==
    ContinuationRan /\ last.outcome = "resolved"
        => \A i \in 1..Len(last.epData) :
              \A k \in 1..Len(last.epData[i].Episodes) :
                 last.value[EntriesBefore(last.epData, i) + k].season = i

ErrorSeasons(epData) == {i \in 1..Len(epData) : isError(epData[i])}

FirstErrorSeason(epData) ==
    CHOOSE i \in ErrorSeasons(epData) : \A j \in ErrorSeasons(epData) : i <= j

\* every entry of the listing has a number the Episode builder can parse
EntriesParse(datum) ==
    \A k \in 1..Len(datum.Episodes) :
        "Episode" \in DOMAIN datum.Episodes[k]
            => /\ Len(datum.Episodes[k].Episode) >= 1
               /\ IsDigit(datum.Episodes[k].Episode[1])

C3_Outcome ==
    ContinuationRan /\ ErrorSeasons(last.epData) # {}
        => LET f == FirstErrorSeason(last.epData)
           IN  /\ last.outcome = "rejected"
               /\ "value" \notin DOMAIN last
               /\ IF \A j \in 1..(f - 1) : EntriesParse(last.epData[j])
                  THEN last.error = [name |-> ImdbErrorName,
                                     message |-> <<last.epData[f].Error>>]
                  ELSE last.error.name = "TypeError"

\* C3 (amended), the cache: a call that rejects leaves _episodes as it was.
C3_RejectionKeepsCache ==
    (last'.op = "episodes settled" /\ last'.outcome = "rejected")
        => (_episodes' = _episodes /\ cacheOwner' = cacheOwner)

OriginHas(key) ==
    \/ key \in DOMAIN origin.base
    \/ origin.over # <<>> /\ key \in DOMAIN origin.over[1]

OriginValue(key) ==
    IF origin.over # <<>> /\ key \in DOMAIN origin.over[1]
    THEN origin.over[1][key]
    ELSE origin.base[key]

\* the number of seasons the loop of episodes() runs over
SeasonCount == IF show.totalseasons = NaN THEN 0 ELSE show.totalseasons

\* C10: a call to episodes() with an empty cache issues, in the one step
\* that starts it, exactly one request per season 1..N, each carrying the
\* series id and the API key and timeout of the options merged for the get
\* call that built the TVShow; every request is still pending when the call
\* returns; the call settles only when all N are fulfilled or one is
\* rejected; and no other step issues a request.
C10_FanOut ==
    /\ EpisodesCalled /\ last.outcome = "pending"
           => /\ Len(sent) = SeasonCount
              /\ \A i \in 1..Len(sent) :
                     /\ sent[i].searchParams.Season = i
                     /\ sent[i].searchParams.i = "tt1"
                     /\ sent[i].searchParams.apikey = OriginValue("apiKey")
                     /\ ("timeout" \in DOMAIN sent[i]) = OriginHas("timeout")
                     /\ OriginHas("timeout") => sent[i].timeout = OriginValue("timeout")
              /\ \E c \in 1..MaxCalls :
                     /\ calls[c] # Null
                     /\ calls[c].id = last.call
                     /\ Len(calls[c].legs) = SeasonCount
                     /\ \A i \in 1..SeasonCount : calls[c].legs[i] = "pending"
    /\ EpisodesSettled
           => /\ Len(last.legs) = SeasonCount
              /\ \/ \A i \in 1..SeasonCount : last.legs[i] = "fulfilled"
                 \/ /\ \E i \in 1..SeasonCount : last.legs[i] = "rejected"
                    /\ last.outcome = "rejected"
                    /\ last.error = TransportError
    /\ ~(EpisodesCalled /\ last.outcome = "pending") => sent = <<>>

\* a show of two seasons fanned out: both requests are out, none answered
C10_Witness ==
    /\ EpisodesCalled
    /\ last.outcome = "pending"
    /\ Len(sent) = 2
    /\ "timeout" \in DOMAIN sent[2]

\* ======================================================================
\* Properties of the order and the cache of TVShow.episodes, checked under
\* SpecEpisodes
\* ======================================================================

\* the Episode e was built from the entry of a season listing
BuiltFrom(e, entry) ==
    /\ e.class = "Episode"
    /\ ("imdbid" \in DOMAIN e) = ("imdbID" \in DOMAIN entry)
    /\ "imdbID" \in DOMAIN entry => e.imdbid = entry.imdbID
    /\ ("episode" \in DOMAIN e) = ("Episode" \in DOMAIN entry)
    /\ "Episode" \in DOMAIN entry => e.episode = DecimalValue(entry.Episode)

\* C11: the list episodes() resolves to holds, for season 1, then season 2,
\* ... then season N, one Episode per entry of the response to the request
\* for that season, in the order of the listing, and nothing else; this is
\* so for every order in which the N responses arrived.
C11_SeasonOrder ==
    ContinuationRan /\ last.outcome = "resolved"
        => /\ Len(last.value) = EntriesBefore(last.bodies, Len(last.bodies) + 1)
           /\ \A i \in 1..Len(last.bodies) :
                 \A k \in 1..Len(last.bodies[i].Episodes) :
                    BuiltFrom(last.value[EntriesBefore(last.bodies, i) + k],
                              last.bodies[i].Episodes[k])

\* the response for season 2 arrived before the response for season 1, and
\* the list still has the two episodes of season 1 before that of season 2
C11_Witness ==
    /\ ContinuationRan
    /\ last.outcome = "resolved"
    /\ last.arrived = <<2, 1>>
    /\ Len(last.bodies[1].Episodes) = 2
    /\ Len(last.value) >= 3
    /\ last.value[1].imdbid = "tt11"
    /\ last.value[2].imdbid = "tt12"
    /\ last.value[3].imdbid = "tt21"

\* some episodes() call has fanned out and has not settled
InFlight == \E c \in 1..MaxCalls : calls[c] # Null

\* C12 (as claimed), the fan-out: a call that overlaps a pending one, or
\* that comes after a successful aggregation, issues no season requests.
C12_NoSecondFanOut ==
    (last'.op = "episodes" /\ (InFlight \/ firstList # 0))
        => (sent' = <<>> /\ fanouts' = fanouts)

\* C12 (as claimed), the cache: only the first successful aggregation
\* assigns _episodes.
C12_AssignedOnce ==
    (_episodes' # _episodes \/ cacheOwner' # cacheOwner) => firstList = 0

\* C12 (as claimed): the episode cache is write-once under every
\* interleaving of episodes() calls: it is assigned at most once, by the
\* first successful aggregation, and no later or overlapping call issues
\* its own fan-out of season requests or overwrites the cached list.
C12_WriteOnce == [][C12_NoSecondFanOut]_vars /\ [][C12_AssignedOnce]_vars

\* ======================================================================
\* Properties of the request orchestrator, checked under Spec
\* ======================================================================

AllDigits(str) == Len(str) >= 1 /\ \A i \in 1..Len(str) : IsDigit(str[i])

\* the timeout a request carries is that of opts, and absent when opts has none
CarriesTimeoutOf(request, opts) ==
    /\ ("timeout" \in DOMAIN request) = ("timeout" \in DOMAIN opts)
    /\ "timeout" \in DOMAIN opts => request.timeout = opts.timeout

\* C4, the request: next() on a page for page number p issues exactly one
\* search with page = p + 1, the name, year and type of the stored request
\* and the API key and timeout of the stored options, and leaves the page
\* object it was called on as it was.
C4_NextRequest ==
    last.op = "next"
        => /\ last.outcome = "pending"
           /\ Len(sent) = 1
           /\ LET q == sent[1].searchParams
                  from == last.from
              IN  /\ AllDigits(q.page)
                  /\ DecimalValue(q.page) = from.page + 1
                  /\ q.s = from.req.name
                  /\ ("y" \in DOMAIN q) = ("year" \in DOMAIN from.req)
                  /\ "y" \in DOMAIN q
                         => AllDigits(q.y) /\ DecimalValue(q.y) = from.req.year
                  /\ ("type" \in DOMAIN q) = ("reqtype" \in DOMAIN from.req)
                  /\ "type" \in DOMAIN q => q.type = from.req.reqtype
                  /\ q.apikey = from.opts.apiKey
                  /\ CarriesTimeoutOf(sent[1], from.opts)
                  /\ pending = [op |-> "search", req |-> from.req,
                                page |-> from.page + 1, opts |-> from.opts]
           /\ page = last.from

\* C4, the chain: the page a search resolves to stores the page number,
\* request and options of that search, so next() on it asks for one more.
C4_Chain ==
    (pending # Null /\ last'.op = "search.then" /\ last'.outcome = "resolved")
        => /\ last'.value.page = pending.page
           /\ last'.value.req = pending.req
           /\ last'.value.opts = pending.opts

\* C4: next() issues exactly one search for page p + 1 with the stored
\* request and options and does not modify its page, so calling it again
\* asks for p + 1 again and following the chain k times asks for p + k;
\* nothing stops it at the last page.
C4_NextPage == []C4_NextRequest /\ [][C4_Chain]_vars

\* next() on page 2 of a search that found nothing asks for page 3
C4_Witness ==
    /\ last.op = "next"
    /\ last.from.page = 2
    /\ last.from.totalresults = 0
    /\ last.from.results = <<>>
    /\ Len(sent) = 1

\* C5 (as claimed): Client.get issues a request when exactly one of name
\* and id is supplied, and rejects without one when neither or both are.
C5_ExactlyOneOfNameAndId ==
    last.op = "Client.get"
        => IF Truthy(last.req, "name") # Truthy(last.req, "id")
           THEN last.outcome = "pending" /\ Len(sent) = 1
           ELSE last.outcome = "rejected" /\ sent = <<>>

\* C5 (amended): Client.get rejects with an ImdbError, and issues no
\* request, only when neither a non-empty name nor a non-empty id is
\* supplied; a non-empty name is looked up by title, also when an id is
\* supplied with it; otherwise a non-empty id is looked up by id.
C5_NameElseId ==
    last.op = "Client.get"
        => IF Truthy(last.req, "name")
           THEN /\ last.outcome = "pending"
                /\ Len(sent) = 1
                /\ "i" \notin DOMAIN sent[1].searchParams
                /\ sent[1].searchParams.t = last.req.name
           ELSE IF Truthy(last.req, "id")
           THEN /\ last.outcome = "pending"
                /\ Len(sent) = 1
                /\ "t" \notin DOMAIN sent[1].searchParams
                /\ sent[1].searchParams.i = last.req.id
           ELSE /\ last.outcome = "rejected"
                /\ last.error.name = ImdbErrorName
                /\ sent = <<>>
                /\ pending = Null

\* a request with both a name and an id went out, by title
C5_Witness ==
    /\ last.op = "Client.get"
    /\ Truthy(last.req, "name")
    /\ Truthy(last.req, "id")
    /\ last.outcome = "pending"
    /\ Len(sent) = 1

\* C6 (as claimed): given options without an API key, the module-level get
\* and search both return a rejected promise, and issue no request.
C6_WrappersReject ==
    last.op \in {"get", "search"} /\ "apiKey" \notin DOMAIN last.opts
        => last.outcome = "rejected" /\ sent = <<>>

\* the options a call with overrides last.over must use, key by key
MergedHas(key) ==
    \/ key \in DOMAIN client.opts
    \/ last.over # <<>> /\ key \in DOMAIN last.over[1]

MergedValue(key) ==
    IF last.over # <<>> /\ key \in DOMAIN last.over[1]
    THEN last.over[1][key]
    ELSE client.opts[key]

\* C7, the merge: the request of a Client.get or Client.search call, and the
\* options its continuation keeps, take each of apiKey and timeout from the
\* overrides when they have it and from the client otherwise.
C7_Merged ==
    last.op \in {"Client.get", "Client.search"} /\ last.outcome = "pending"
        => /\ Len(sent) = 1
           /\ sent[1].searchParams.apikey = MergedValue("apiKey")
           /\ ("timeout" \in DOMAIN sent[1]) = MergedHas("timeout")
           /\ MergedHas("timeout") => sent[1].timeout = MergedValue("timeout")
           /\ DOMAIN pending.opts = {k \in {"apiKey", "timeout"} : MergedHas(k)}
           /\ \A k \in DOMAIN pending.opts : pending.opts[k] = MergedValue(k)

\* C7, the frame: no step changes the options of a constructed client.
C7_BaselineKept == client # Null => client' = client

\* C7: every Client.get and Client.search call uses the shallow merge of its
\* overrides over the client's options, and the client's options are never
\* modified.
C7_MergeOpts == []C7_Merged /\ [][C7_BaselineKept]_vars

\* an override of the API key alone: the timeout is still the client's
C7_Witness ==
    /\ last.op = "Client.get"
    /\ last.over = <<[apiKey |-> "k2"]>>
    /\ last.outcome = "pending"
    /\ pending.opts = [apiKey |-> "k2", timeout |-> 10]

\* a Year the Movie builder accepts: a range, or a string that starts with
\* a digit
YearParses(data) ==
    \/ /\ Len(data.Year) >= 5
       /\ AllDigits(SubSeq(data.Year, 1, 4))
       /\ data.Year[5] \in {"-", "endash"}
    \/ Len(data.Year) >= 1 /\ IsDigit(data.Year[1])

\* the numbers the builder of the payload's Type has to parse can be parsed
PayloadParses(data) ==
    /\ YearParses(data)
    /\ data.Type = "episode"
           => /\ IsDigit(data.Season[1])
              /\ "Episode" \in DOMAIN data => IsDigit(data.Episode[1])

ClassOfType == [movie |-> "Movie", game |-> "Game", series |-> "TVShow",
                episode |-> "Episode"]

\* C8: Client.get rejects a response that carries the failure indicator
\* with an ImdbError made of the upstream message and the requested name
\* (or id), whatever its Type; otherwise it hands a movie to the Movie
\* builder, a game to Game, a series to TVShow and an episode to Episode,
\* and resolves to that record (or rejects with the TypeError of that
\* builder when a number in the payload cannot be parsed); any other Type
\* rejects with an ImdbError that reports the tag.
C8_Classification ==
    last.op = "get.then"
        => LET data == last.data
               asked == IF Truthy(last.req, "name")
                        THEN last.req.name ELSE last.req.id
           IN  IF data.Response = "False"
               THEN /\ last.outcome = "rejected"
                    /\ last.error = [name |-> ImdbErrorName,
                                     message |-> <<data.Error, ": ", asked>>]
               ELSE IF data.Type \in DOMAIN ClassOfType
               THEN IF PayloadParses(data)
                    THEN /\ last.outcome = "resolved"
                         /\ last.value.class = ClassOfType[data.Type]
                    ELSE /\ last.outcome = "rejected"
                         /\ last.error.name = "TypeError"
               ELSE /\ last.outcome = "rejected"
                    /\ last.error = [name |-> ImdbErrorName,
                                     message |-> <<"type: '", data.Type,
                                                   "' is not valid">>]

\* a response that carries the failure indicator and the Type tag movie
\* was rejected
C8_Witness ==
    /\ last.op = "get.then"
    /\ last.data.Response = "False"
    /\ "Type" \in DOMAIN last.data
    /\ last.data.Type = "movie"
    /\ last.outcome = "rejected"

\* the whole string is four digits, a hyphen or an en-dash, and then either
\* nothing or four more digits
IsYearRange(year) ==
    /\ Len(year) \in {5, 9}
    /\ AllDigits(SubSeq(year, 1, 4))
    /\ year[5] \in {"-", "endash"}
    /\ Len(year) = 9 => AllDigits(SubSeq(year, 6, 9))

\* C9 (as claimed): for a Year that is a year range, with a hyphen or with
\* an en-dash, the TVShow keeps the string and has start_year = the first
\* four digits and end_year = the second four digits, or no end_year when
\* they are absent.
C9_YearRange ==
    (/\ last.op = "get.then"
     /\ last.outcome = "resolved"
     /\ last.value.class = "TVShow"
     /\ IsYearRange(last.data.Year))
        => /\ last.value._yearData = last.data.Year
           /\ last.value.start_year = DecimalValue(SubSeq(last.data.Year, 1, 4))
           /\ IF Len(last.data.Year) = 9
              THEN /\ "end_year" \in DOMAIN last.value
                   /\ last.value.end_year = DecimalValue(SubSeq(last.data.Year, 6, 9))
              ELSE "end_year" \notin DOMAIN last.value

====
